---- MODULE Spec2Model ----
(***************************************************************************)
(* Signal-to-trade pipeline of safe-gmx: the trade store and execution     *)
(* queue (TradeStateManager), the signal watcher and its periodic queue    *)
(* drain (TradingSignalWatcher), the price monitor (PriceMonitoringService)*)
(* and the agent tools that queue exits (AgenticTradingOrchestrator).      *)
(***************************************************************************)
EXTENDS Integers, Sequences, FiniteSets, TLC

(* ---------------------------- bounds ----------------------------------- *)
MaxTrades == 1        \* Spec: trade ids minted by createTradeEntry
MaxDeliveries == 1    \* Spec: change-stream deliveries of the signal
MaxAiExits == 1       \* Spec: exits queued by the agent tool executeTradeExit
MaxAdmitted == 2      \* SpecAdmission: trade ids minted by createTradeEntry
MaxRedeliveries == 2  \* SpecAdmission: change-stream deliveries of the signal
MaxApiSignals == 2    \* SpecAdmission: signals posted to processApiSignal
MaxQueueOps == 4      \* SpecQueue: plans queued by a direct client
MaxModifies == 1      \* SpecMonitor: calls of the agent tool modifyTradeStrategy
MaxOverlap == 2       \* SpecMonitor: monitor iterations awaiting a price at once
MaxEmissions == 2     \* SpecMonitor: "tradeExit" events emitted
MaxSwapCalls == 2     \* SpecSwap: calls of executeSwap for one Safe

TradeIds == 1..(MaxTrades + MaxAdmitted)
SignalIds == {"s1"}
Users == {"u1", "u2"}
Networks == {"arbitrum", "polygon"}
Urgencies == {"low", "medium", "high"}
Actions == {"enter", "exit"}
Statuses == {"pending", "entered", "partially_exited", "fully_exited",
             "stopped_out", "expired", "failed"}
ExitConditions == {"MAX_EXIT_TIME", "STOP_LOSS", "TRAILING_STOP", "TP2", "TP1"}
Reasons == ExitConditions \cup {"AI decision", "New signal"}

(* signal_data of the modelled signal (token ARB), prices in cents *)
SignalData == [currentPrice |-> 100, targets |-> <<105, 110>>, stopLoss |-> 95]
Prices == {95, 100, 106, 110}
EntryPrices == {100}          \* prices observed when a trade is entered
TickPrices == {95, 100, 106}  \* prices observed by the monitor ticks of Spec
MonitorEntryPrices == {100, 113}  \* SpecMonitor: prices at entry
NoPrice == 0
NewStopLosses == {NoPrice, 106}   \* modifyTradeStrategy: newStopLoss absent or given
NewTargets == {NoPrice}           \* modifyTradeStrategy: newTp1, newTp2 absent
TrailingStopRetracement == 2

NoTrade == [status |-> "none"]
NoTradeId == 0                \* the empty tradeId "" of a failed trading pair
NoNetwork == "none"
NoEvent == [tradeId |-> NoTradeId]   \* no "tradeExit" event emitted yet

(* executeSwap: the spenders of the sell token, the calls and their inputs; *)
(* amounts are in raw units of the sell token                               *)
Spenders == {"permit2", "allowanceHolder"}
SwapCalls == 1..MaxSwapCalls
NoSwapCall == [pc |-> "idle"]
SellTokens == {"USDC", "ETH"}
NATIVE_ETH_ADDRESS == "0xEeeeeEeeeEeEeeEeEeEeeEEEeeeeEeeeeeeeEEeE"
SellAmounts == {3, 5}
maxAllowance == 1000                 \* stands for 2^256 - 1, above every amount
PriorAllowances == {5, maxAllowance} \* approvals given before the calls
(* what awaiting the receipt of the swap transaction gives: nothing (the    *)
(* swap failed before, or wait() threw), or a receipt with its status       *)
Receipts == {"none", "success", "reverted"}

(* calculatePositionSize: inputs; amounts of 18-decimal tokens are in units *)
(* of 10^14 raw units, so that minimumGasReserve "0.001" is 10              *)
NoSizing == [baseTokenSymbol |-> "none"]
BaseTokens == {"ETH", "USDC", "WETH"}
SizingNetworks == {"arbitrum", "arbitrum_sepolia"}
Balances == {0, 5, 10, 25, 100}
PositionPercentages == {-1, 0, 1, 20, 80, 81}  \* 0: positionPercentage absent
defaultPercentage == 20
maxPositionPercentage == 80
minimumGasReserve == 10

(* validateSafeForToken: the Safe address of the request, the addresses the *)
(* directory stores (checksummed or not) and the chains of the token        *)
SubmittedAddresses == {"0xab", "0xcd"}
StoredAddresses == {"0xAb", "0xcd"}
ValidationNetworks == {"arbitrum", "base"}
NoDeployment == [address |-> "none"]
NoSafeDoc == [deployments |-> "none"]   \* getUserSafe returned null
NoValidation == [safeAddress |-> "none"]

(* processApiSignal: the fields of an ApiSignal, prices in cents; the       *)
(* "$date" of "Max Exit Time" is absent or lies before, at or after the     *)
(* instant of submission                                                    *)
NoSignal == [side |-> "none"]
SignalMessages == {"buy", "sell", "hold"}
CurrentPrices == {0, 100}
SignalTP1s == {95, 105, 110}
SignalTP2s == {95, 105, 110}
SignalSLs == {95, 105}
MaxExitTimes == {"absent", "past", "now", "future"}

VARIABLES
  activeTrades,            \* Map tradeId -> TradeEntry
  tradeHistory,            \* Map tradeId -> TradeEntry
  executionQueue,          \* TradeExecutionPlan[]
  nextTradeId,             \* next fresh id returned by uuidv4()
  nextSeq,                 \* number of plans queued so far (arrival stamp)
  running,                 \* plans taken by processExecutionQueue, awaiting
  received,                \* plans returned to a direct client of the queue
  aiExits,                 \* calls of the agent tool executeTradeExit so far
  processingQueue,         \* signalIds being processed by the watcher
  pendingSubs,             \* signalId -> subscribers not yet processed
  deliveries,              \* change-stream deliveries seen so far
  tradingPairs,            \* signalId -> result.tradingPairs of processSignal
  nextSignalId,            \* next fresh id minted by processApiSignal
  apiReplies,              \* ProcessedSignal replies of processApiSignal
  swaps,                   \* tradeIds swapped by executeTradeEnhanced
  tradeMonitoringConfigs,  \* Map tradeId -> TradeMonitoringConfig
  trailingHighs,           \* Map tradeId -> highest price seen
  checking,                \* iterations of checkTradeConditions awaiting a price
  emitted,                 \* "tradeExit" events emitted by the monitor
  modifies,                \* calls of the agent tool modifyTradeStrategy so far
  maxExitTimePassed,       \* the clock has reached the signal's maxExitTime
  tradeExit,               \* payload of the latest "tradeExit" event
  lookupFailed,            \* the latest getCurrentPrice of a tick returned null
  allowances,              \* on-chain allowance of the Safe per spender
  swapCalls,               \* calls of executeSwap: position, token, amount
  sizing,                  \* latest call of calculatePositionSize and result
  validation,              \* latest call of validateSafeForToken and result
  validated,               \* latest signal given to processApiSignal
  entryReceipts,           \* Map tradeId -> status of the receipt of its enter swap
  cache,                   \* TokenChainDetectionService.cache: key -> result
  clock,                   \* Date.now(), in minutes
  inflight,                \* detectTokenChains calls awaiting their sources
  detections,              \* finished detectTokenChains calls, their source,
                           \* and how many calls had finished at their start
  pendingSignals,          \* orchestrator: signalIds awaiting the agent
  signalCalls,             \* calls of the tool executeSignalForSubscribers
  rejected                 \* signalIds given to the tool rejectSignal

vars == <<activeTrades, tradeHistory, executionQueue, nextTradeId, nextSeq,
          running, received, aiExits, processingQueue, pendingSubs, deliveries,
          tradingPairs, nextSignalId, apiReplies, swaps,
          tradeMonitoringConfigs, trailingHighs, checking, emitted, modifies,
          maxExitTimePassed, tradeExit, lookupFailed, allowances, swapCalls,
          sizing,
          validation, validated, entryReceipts, cache, clock, inflight,
          detections, pendingSignals, signalCalls, rejected>>

storeVars == <<activeTrades, tradeHistory, nextTradeId>>
watcherVars == <<processingQueue, pendingSubs, deliveries, tradingPairs>>
apiVars == <<nextSignalId, apiReplies, swaps>>
attachVars == <<tradeMonitoringConfigs, trailingHighs>>
monitorVars == <<attachVars, checking, emitted, modifies, maxExitTimePassed,
                 tradeExit, lookupFailed>>
clientVars == <<received, aiExits, apiVars>>
validationVars == <<validation, validated>>
resolverVars == <<cache, clock, inflight, detections>>
orchestratorVars == <<pendingSignals, signalCalls, rejected>>
serviceVars == <<allowances, swapCalls, sizing, validationVars, entryReceipts,
                 resolverVars, orchestratorVars>>

(* ------------------------ TradeStateManager ---------------------------- *)
urgencyOrder(u) == CASE u = "high" -> 3 [] u = "medium" -> 2 [] OTHER -> 1

TerminalStatuses == {"fully_exited", "stopped_out", "expired", "failed"}

RECURSIVE SumPct(_)
SumPct(evs) ==
  IF evs = <<>> THEN 0 ELSE Head(evs).exitPercentage + SumPct(Tail(evs))

totalExitPercentage(trade) == SumPct(trade.exitEvents)

getTrade(at, th, tradeId) ==
  IF tradeId \in DOMAIN at THEN at[tradeId]
  ELSE IF tradeId \in DOMAIN th THEN th[tradeId]
  ELSE NoTrade

Restrict(f, S) == [x \in S |-> f[x]]

moveToHistory(at, th, tradeId) ==
  IF tradeId \in DOMAIN at
  THEN [active |-> Restrict(at, DOMAIN at \ {tradeId}),
        history |-> (tradeId :> at[tradeId]) @@ th]
  ELSE [active |-> at, history |-> th]

(* fault: the record is keyed by an id that is not fresh *)
createTradeEntryReusedId(at, tradeId, userId, signalId, networkKey) ==
  (1 :> [userId |-> userId, signalId |-> signalId,
         networkKey |-> networkKey, status |-> "pending",
         entryPrice |-> SignalData.currentPrice,
         tp1 |-> SignalData.targets[1], tp2 |-> SignalData.targets[2],
         stopLoss |-> SignalData.stopLoss,
         exitEvents |-> <<>>]) @@ at

createTradeEntry(at, tradeId, userId, signalId, networkKey) ==
  (tradeId :> [userId |-> userId, signalId |-> signalId,
               networkKey |-> networkKey, status |-> "pending",
               entryPrice |-> SignalData.currentPrice,
               tp1 |-> SignalData.targets[1], tp2 |-> SignalData.targets[2],
               stopLoss |-> SignalData.stopLoss,
               exitEvents |-> <<>>]) @@ at

(* fault: the status of a trade already moved to the history is rewritten *)
updateTradeStatusInHistory(at, th, tradeId, status) ==
  IF tradeId \in DOMAIN at
  THEN LET at1 == [at EXCEPT ![tradeId].status = status]
       IN IF status \in {"fully_exited", "stopped_out", "expired"}
          THEN moveToHistory(at1, th, tradeId)
          ELSE [active |-> at1, history |-> th]
  ELSE IF tradeId \in DOMAIN th
  THEN [active |-> at, history |-> [th EXCEPT ![tradeId].status = status]]
  ELSE [active |-> at, history |-> th]

updateTradeStatus(at, th, tradeId, status) ==
  IF tradeId \notin DOMAIN at
  THEN [active |-> at, history |-> th]
  ELSE LET at1 == [at EXCEPT ![tradeId].status = status]
       IN IF status \in {"fully_exited", "stopped_out", "expired"}
          THEN moveToHistory(at1, th, tradeId)
          ELSE [active |-> at1, history |-> th]

addExitEvent(at, th, tradeId, exitEvent) ==
  IF tradeId \in DOMAIN at
  THEN LET t1 == [at[tradeId] EXCEPT
                    !.exitEvents = Append(@, exitEvent)]
           total == totalExitPercentage(t1)
       IN IF total >= 100
          THEN moveToHistory([at EXCEPT ![tradeId] =
                                [t1 EXCEPT !.status = "fully_exited"]],
                             th, tradeId)
          ELSE IF total > 0
          THEN [active |-> [at EXCEPT ![tradeId] =
                              [t1 EXCEPT !.status = "partially_exited"]],
                history |-> th]
          ELSE [active |-> [at EXCEPT ![tradeId] = t1], history |-> th]
  ELSE IF tradeId \in DOMAIN th
  THEN LET t1 == [th[tradeId] EXCEPT
                    !.exitEvents = Append(@, exitEvent)]
           total == totalExitPercentage(t1)
       IN [active |-> at,
           history |-> [th EXCEPT ![tradeId] =
              IF total >= 100 THEN [t1 EXCEPT !.status = "fully_exited"]
              ELSE IF total > 0
                   THEN [t1 EXCEPT !.status = "partially_exited"]
                   ELSE t1]]
  ELSE [active |-> at, history |-> th]

(* fault: an unstable sort, a plan overtakes the plans of its own urgency *)
RECURSIVE InsertBeforeEqualUrgency(_, _)
InsertBeforeEqualUrgency(sorted, plan) ==
  IF sorted = <<>> THEN <<plan>>
  ELSE IF urgencyOrder(plan.urgency) >= urgencyOrder(Head(sorted).urgency)
       THEN <<plan>> \o sorted
       ELSE <<Head(sorted)>> \o InsertBeforeEqualUrgency(Tail(sorted), plan)

(* Array.prototype.sort is stable: equal urgencies keep arrival order *)
RECURSIVE InsertByUrgency(_, _)
InsertByUrgency(sorted, plan) ==
  IF sorted = <<>> THEN <<plan>>
  ELSE IF urgencyOrder(plan.urgency) > urgencyOrder(Head(sorted).urgency)
       THEN <<plan>> \o sorted
       ELSE <<Head(sorted)>> \o InsertByUrgency(Tail(sorted), plan)

RECURSIVE SortByUrgency(_)
SortByUrgency(q) ==
  IF q = <<>> THEN <<>>
  ELSE InsertByUrgency(SortByUrgency(SubSeq(q, 1, Len(q) - 1)), q[Len(q)])

(* fault: the queue is not sorted after the push *)
queueTradeExecutionUnsorted(q, plan) == Append(q, plan)

queueTradeExecution(q, plan) == SortByUrgency(Append(q, plan))

(* getNextExecutionPlan reading the head without shift() *)
getNextExecutionPlanPeek(q) ==
  IF q = <<>> THEN [plan |-> NoTrade, rest |-> q]
  ELSE [plan |-> Head(q), rest |-> q]

getNextExecutionPlan(q) ==
  IF q = <<>> THEN [plan |-> NoTrade, rest |-> q]
  ELSE [plan |-> Head(q), rest |-> Tail(q)]

(* ----------------------------- NetworkUtils ---------------------------- *)
(* TOKEN_MAP.ARB.addresses *)
TokenNetworks == {"arbitrum", "arbitrum_sepolia"}

determineOptimalNetwork(deployments) ==
  LET availableNetworks == deployments \cap TokenNetworks
  IN IF availableNetworks = {} THEN NoNetwork
     ELSE IF "arbitrum" \in availableNetworks THEN "arbitrum"
     ELSE IF "polygon" \in availableNetworks THEN "polygon"
     ELSE CHOOSE n \in availableNetworks : TRUE

(* ------------------------ PriceMonitoringService ----------------------- *)
addTradeMonitoring(cfgs, highs, config) ==
  [configs |-> (config.tradeId :> config) @@ cfgs,
   highs |-> IF config.trailingStopEnabled
             THEN (config.tradeId :> config.entryPrice) @@ highs
             ELSE highs]

removeTradeMonitoring(cfgs, highs, tradeId) ==
  [configs |-> Restrict(cfgs, DOMAIN cfgs \ {tradeId}),
   highs |-> Restrict(highs, DOMAIN highs \ {tradeId})]

(* checkTradeConditions with the stop loss tested before the deadline *)
checkTradeConditionsStopLossFirst(config, high0, currentPrice, expired) ==
  LET currentHigh == IF high0 # NoPrice THEN high0 ELSE config.entryPrice
      raised == config.trailingStopEnabled /\ currentPrice >= config.tp1
                /\ currentPrice > currentHigh
      high1 == IF raised THEN currentPrice ELSE high0
      trailingHigh == IF high1 # NoPrice THEN high1 ELSE currentPrice
      trailingHit ==
        /\ config.trailingStopEnabled
        /\ currentPrice >= config.tp2
        /\ 100 * currentPrice <= trailingHigh * (100 - config.trailingStopRetracement)
  IN IF currentPrice <= config.stopLoss
     THEN [exitCondition |-> "STOP_LOSS", high |-> high0]
     ELSE IF expired THEN [exitCondition |-> "MAX_EXIT_TIME", high |-> high0]
     ELSE IF currentPrice >= config.tp1
     THEN [exitCondition |-> IF trailingHit THEN "TRAILING_STOP"
                             ELSE IF currentPrice >= config.tp2 THEN "TP2"
                             ELSE "TP1",
           high |-> high1]
     ELSE [exitCondition |-> "none", high |-> high0]

(* one iteration of the loop of checkTradeConditions, after the price is in *)
checkTradeConditions(config, high0, currentPrice, expired) ==
  LET currentHigh == IF high0 # NoPrice THEN high0 ELSE config.entryPrice
      raised == config.trailingStopEnabled /\ currentPrice >= config.tp1
                /\ currentPrice > currentHigh
      high1 == IF raised THEN currentPrice ELSE high0
      trailingHigh == IF high1 # NoPrice THEN high1 ELSE currentPrice
      trailingHit ==
        /\ config.trailingStopEnabled
        /\ currentPrice >= config.tp2
        /\ 100 * currentPrice <= trailingHigh * (100 - config.trailingStopRetracement)
  IN IF expired THEN [exitCondition |-> "MAX_EXIT_TIME", high |-> high0]
     ELSE IF currentPrice <= config.stopLoss
     THEN [exitCondition |-> "STOP_LOSS", high |-> high0]
     ELSE IF currentPrice >= config.tp1
     THEN [exitCondition |-> IF trailingHit THEN "TRAILING_STOP"
                             ELSE IF currentPrice >= config.tp2 THEN "TP2"
                             ELSE "TP1",
           high |-> high1]
     ELSE [exitCondition |-> "none", high |-> high0]

(* ------------------------- TradingSignalWatcher ------------------------ *)
getExitType(reason) == IF reason \in ExitConditions THEN reason ELSE "MANUAL"

exitUrgency(exitCondition) ==
  IF exitCondition = "STOP_LOSS" THEN "high" ELSE "medium"

Plan(action, tradeId, reason, urgency) ==
  [action |-> action, tradeId |-> tradeId, reason |-> reason,
   urgency |-> urgency, seq |-> nextSeq + 1]

Init ==
  /\ activeTrades = <<>>
  /\ tradeHistory = <<>>
  /\ executionQueue = <<>>
  /\ nextTradeId = 1
  /\ nextSeq = 0
  /\ running = {}
  /\ received = <<>>
  /\ aiExits = 0
  /\ processingQueue = {}
  /\ pendingSubs = [s \in SignalIds |-> {}]
  /\ deliveries = 0
  /\ tradingPairs = [s \in SignalIds |-> {}]
  /\ nextSignalId = 1
  /\ apiReplies = <<>>
  /\ swaps = <<>>
  /\ tradeMonitoringConfigs = <<>>
  /\ trailingHighs = <<>>
  /\ checking = <<>>
  /\ emitted = <<>>
  /\ modifies = 0
  /\ maxExitTimePassed = FALSE
  /\ tradeExit = NoEvent
  /\ lookupFailed = FALSE
  /\ allowances = [spender \in Spenders |-> 0]
  /\ swapCalls = [c \in SwapCalls |-> NoSwapCall]
  /\ sizing = NoSizing
  /\ validation = NoValidation
  /\ validated = NoSignal
  /\ entryReceipts = <<>>
  /\ cache = <<>>
  /\ clock = 0
  /\ inflight = <<>>
  /\ detections = <<>>
  /\ pendingSignals = {}
  /\ signalCalls = <<>>
  /\ rejected = {}

(* change-stream "change" event: handleSignalChange up to its first await *)
HandleSignalChange(s) ==
  /\ deliveries' = deliveries + 1
  /\ IF s \in processingQueue
     THEN UNCHANGED <<processingQueue, pendingSubs, tradingPairs>>
     ELSE /\ processingQueue' = processingQueue \cup {s}
          /\ pendingSubs' = [pendingSubs EXCEPT ![s] = Users]
          /\ tradingPairs' = [tradingPairs EXCEPT ![s] = {}]
  /\ UNCHANGED <<storeVars, executionQueue, nextSeq, running, clientVars, monitorVars>>
  /\ UNCHANGED serviceVars

(* fault: a failed admission still creates and queues a trade *)
ProcessSubscriberQueuesFailure(s, username, userSafe, activeDeployments) ==
  /\ username \in pendingSubs[s]
  /\ pendingSubs' = [pendingSubs EXCEPT ![s] = @ \ {username}]
  /\ LET optimalNetwork == determineOptimalNetwork(activeDeployments)
         failed == ~userSafe \/ activeDeployments = {}
                   \/ optimalNetwork = NoNetwork
     IN /\ activeTrades' = createTradeEntry(activeTrades, nextTradeId,
                               username, s, optimalNetwork)
        /\ tradingPairs' = [tradingPairs EXCEPT ![s] = @ \cup
              {IF failed
               THEN [userId |-> username, tradeId |-> NoTradeId,
                     networkKey |-> "", status |-> "failed"]
               ELSE [userId |-> username, tradeId |-> nextTradeId,
                     networkKey |-> optimalNetwork, status |-> "pending"]}]
        /\ nextTradeId' = nextTradeId + 1
        /\ executionQueue' = queueTradeExecution(executionQueue,
              Plan("enter", nextTradeId, "New signal", "medium"))
        /\ nextSeq' = nextSeq + 1
        /\ UNCHANGED tradeHistory
  /\ UNCHANGED <<running, clientVars, processingQueue, deliveries, monitorVars>>
  /\ UNCHANGED serviceVars

(* processSubscriber once the directory reads have returned *)
ProcessSubscriber(s, username, userSafe, activeDeployments) ==
  /\ username \in pendingSubs[s]
  /\ pendingSubs' = [pendingSubs EXCEPT ![s] = @ \ {username}]
  /\ LET optimalNetwork == determineOptimalNetwork(activeDeployments)
     IN IF ~userSafe \/ activeDeployments = {} \/ optimalNetwork = NoNetwork
        THEN /\ tradingPairs' = [tradingPairs EXCEPT ![s] = @ \cup
                   {[userId |-> username, tradeId |-> NoTradeId,
                     networkKey |-> "", status |-> "failed"]}]
             /\ UNCHANGED <<storeVars, executionQueue, nextSeq>>
        ELSE /\ activeTrades' = createTradeEntry(activeTrades, nextTradeId,
                                    username, s, optimalNetwork)
             /\ tradingPairs' = [tradingPairs EXCEPT ![s] = @ \cup
                   {[userId |-> username, tradeId |-> nextTradeId,
                     networkKey |-> optimalNetwork, status |-> "pending"]}]
             /\ nextTradeId' = nextTradeId + 1
             /\ executionQueue' = queueTradeExecution(executionQueue,
                   Plan("enter", nextTradeId, "New signal", "medium"))
             /\ nextSeq' = nextSeq + 1
             /\ UNCHANGED tradeHistory
  /\ UNCHANGED <<running, clientVars, processingQueue, deliveries, monitorVars>>
  /\ UNCHANGED serviceVars

(* handleSignalChange after processSignal has settled: the finally block *)
FinishSignal(s) ==
  /\ s \in processingQueue
  /\ pendingSubs[s] = {}
  /\ processingQueue' = processingQueue \ {s}
  /\ UNCHANGED <<storeVars, executionQueue, nextSeq, running, clientVars,
                 pendingSubs, deliveries, tradingPairs, monitorVars>>
  /\ UNCHANGED serviceVars

(* setInterval tick: processExecutionQueue up to the await of the executor *)
ProcessExecutionQueue ==
  /\ executionQueue # <<>>
  /\ LET next == getNextExecutionPlan(executionQueue)
         trade == getTrade(activeTrades, tradeHistory, next.plan.tradeId)
     IN /\ executionQueue' = next.rest
        /\ running' = IF trade = NoTrade THEN running
                      ELSE running \cup {next.plan}
  /\ UNCHANGED <<storeVars, nextSeq, clientVars, watcherVars, monitorVars>>
  /\ UNCHANGED serviceVars

(* executeSwap, from the broadcast on: a receipt that wait() returns makes  *)
(* the result a success, whatever its status                                *)
executeTransaction(receipt) ==
  IF receipt # "none"
  THEN [success |-> TRUE, receipt |-> receipt]
  ELSE [success |-> FALSE, receipt |-> receipt]

(* executeTrade: the rest of the handler once price, balance and swap are in *)
ExecuteTrade(plan, currentPrice, balanceOk, receipt) ==
  /\ plan \in running
  /\ plan.action = "enter"
  /\ running' = running \ {plan}
  /\ IF currentPrice # NoPrice /\ balanceOk /\ executeTransaction(receipt).success
     THEN LET trade == getTrade(activeTrades, tradeHistory, plan.tradeId)
              st == updateTradeStatus(activeTrades, tradeHistory,
                                      plan.tradeId, "entered")
              mon == addTradeMonitoring(tradeMonitoringConfigs, trailingHighs,
                       [tradeId |-> plan.tradeId, entryPrice |-> currentPrice,
                        tp1 |-> trade.tp1, tp2 |-> trade.tp2,
                        stopLoss |-> trade.stopLoss,
                        trailingStopEnabled |-> TRUE,
                        trailingStopRetracement |-> TrailingStopRetracement])
          IN /\ activeTrades' = st.active
             /\ tradeHistory' = st.history
             /\ tradeMonitoringConfigs' = mon.configs
             /\ trailingHighs' = mon.highs
             /\ entryReceipts' = (plan.tradeId :> receipt) @@ entryReceipts
             /\ UNCHANGED <<checking, emitted, tradeExit, modifies,
                            maxExitTimePassed, lookupFailed>>
     ELSE LET st == updateTradeStatus(activeTrades, tradeHistory,
                                      plan.tradeId, "failed")
          IN /\ activeTrades' = st.active
             /\ tradeHistory' = st.history
             /\ UNCHANGED <<monitorVars, entryReceipts>>
  /\ UNCHANGED <<executionQueue, nextTradeId, nextSeq, clientVars,
                 watcherVars>>
  /\ UNCHANGED <<allowances, swapCalls, sizing, validationVars, resolverVars,
                 orchestratorVars>>

(* exitTrade: the rest of the handler once price and swap are in *)
ExitTrade(plan, currentPrice, swapOk) ==
  /\ plan \in running
  /\ plan.action = "exit"
  /\ running' = running \ {plan}
  /\ IF currentPrice # NoPrice /\ swapOk
     THEN LET st == addExitEvent(activeTrades, tradeHistory, plan.tradeId,
                      [exitType |-> getExitType(plan.reason),
                       exitPercentage |-> 100])
          IN /\ activeTrades' = st.active
             /\ tradeHistory' = st.history
     ELSE UNCHANGED <<activeTrades, tradeHistory>>
  /\ UNCHANGED <<executionQueue, nextTradeId, nextSeq, clientVars,
                 watcherVars, monitorVars>>
  /\ UNCHANGED serviceVars

(* a monitor tick whose listener executes the exit itself, as             *)
(* ApiSignalProcessor.handleTradeExit does by calling exitTrade directly    *)
CheckTradeConditionsExitsDirectly(tradeId, currentPrice, expired) ==
  /\ tradeId \in DOMAIN tradeMonitoringConfigs
  /\ currentPrice # NoPrice
  /\ LET high0 == IF tradeId \in DOMAIN trailingHighs
                  THEN trailingHighs[tradeId] ELSE NoPrice
         res == checkTradeConditions(tradeMonitoringConfigs[tradeId], high0,
                                     currentPrice, expired)
         mon == removeTradeMonitoring(tradeMonitoringConfigs, trailingHighs,
                                      tradeId)
         st == addExitEvent(activeTrades, tradeHistory, tradeId,
                 [exitType |-> getExitType(res.exitCondition),
                  exitPercentage |-> 100])
     IN /\ res.exitCondition # "none"
        /\ activeTrades' = st.active
        /\ tradeHistory' = st.history
        /\ tradeMonitoringConfigs' = mon.configs
        /\ trailingHighs' = mon.highs
        /\ tradeExit' = [tradeId |-> tradeId,
                         exitCondition |-> res.exitCondition,
                         exitPrice |-> currentPrice,
                         config |-> tradeMonitoringConfigs[tradeId]]
        /\ emitted' = Append(emitted, [tradeId |-> tradeId,
                                       exitCondition |-> res.exitCondition])
  /\ lookupFailed' = FALSE
  /\ UNCHANGED <<nextTradeId, executionQueue, nextSeq, running, clientVars,
                 watcherVars, checking, modifies, maxExitTimePassed>>
  /\ UNCHANGED serviceVars

(* one trade of a monitor tick: emit "tradeExit", handleTradeExit, detach *)
CheckTradeConditions(tradeId, currentPrice, expired) ==
  /\ tradeId \in DOMAIN tradeMonitoringConfigs
  /\ currentPrice # NoPrice
  /\ LET high0 == IF tradeId \in DOMAIN trailingHighs
                  THEN trailingHighs[tradeId] ELSE NoPrice
         res == checkTradeConditions(tradeMonitoringConfigs[tradeId], high0,
                                     currentPrice, expired)
         mon == removeTradeMonitoring(tradeMonitoringConfigs, trailingHighs,
                                      tradeId)
     IN /\ res.exitCondition # "none"
        /\ executionQueue' =
             IF getTrade(activeTrades, tradeHistory, tradeId) = NoTrade
             THEN executionQueue
             ELSE queueTradeExecution(executionQueue,
                    Plan("exit", tradeId, res.exitCondition,
                         exitUrgency(res.exitCondition)))
        /\ nextSeq' = IF getTrade(activeTrades, tradeHistory, tradeId) = NoTrade
                       THEN nextSeq ELSE nextSeq + 1
        /\ tradeMonitoringConfigs' = mon.configs
        /\ trailingHighs' = mon.highs
        /\ tradeExit' = [tradeId |-> tradeId,
                         exitCondition |-> res.exitCondition,
                         exitPrice |-> currentPrice,
                         config |-> tradeMonitoringConfigs[tradeId]]
        /\ emitted' = Append(emitted, [tradeId |-> tradeId,
                                       exitCondition |-> res.exitCondition])
  /\ lookupFailed' = FALSE
  /\ UNCHANGED <<storeVars, running, clientVars, watcherVars, checking,
                 modifies, maxExitTimePassed>>
  /\ UNCHANGED serviceVars

(* the clock reaches config.maxExitTime: "now >= config.maxExitTime" holds; *)
(* only the ticks read the clock, so it is followed from the first          *)
(* attachment on                                                            *)
MaxExitTimePasses ==
  /\ ~maxExitTimePassed
  /\ DOMAIN tradeMonitoringConfigs # {}
  /\ maxExitTimePassed' = TRUE
  /\ UNCHANGED <<storeVars, executionQueue, nextSeq, running, clientVars,
                 watcherVars, attachVars, checking, emitted, tradeExit, modifies,
                 lookupFailed>>
  /\ UNCHANGED serviceVars

(* agent tool executeTradeExit -> AgenticTradingOrchestrator.executeTradeExit *)
ExecuteTradeExit(tradeId) ==
  /\ getTrade(activeTrades, tradeHistory, tradeId) # NoTrade
  /\ aiExits' = aiExits + 1
  /\ executionQueue' = queueTradeExecution(executionQueue,
         Plan("exit", tradeId, "AI decision", "high"))
  /\ nextSeq' = nextSeq + 1
  /\ UNCHANGED <<storeVars, running, received, apiVars, watcherVars,
                 monitorVars>>
  /\ UNCHANGED serviceVars

(* the swaps of the enter path that failed or were mined with success *)
SettledReceipts == {"none", "success"}

(* the directory reads of processSubscriber: no deployments without a Safe *)
DirectoryReads ==
  {d \in [userSafe : BOOLEAN, activeDeployments : SUBSET Networks] :
     ~d.userSafe => d.activeDeployments = {}}

Next ==
  \/ \E s \in SignalIds :
        deliveries < MaxDeliveries /\ HandleSignalChange(s)
  \/ \E s \in SignalIds, u \in Users, d \in DirectoryReads :
        /\ nextTradeId <= MaxTrades
        /\ ProcessSubscriber(s, u, d.userSafe, d.activeDeployments)
  \/ \E s \in SignalIds : FinishSignal(s)
  \/ ProcessExecutionQueue
  \/ \E plan \in running, p \in EntryPrices \cup {NoPrice}, b \in BOOLEAN,
        r \in SettledReceipts : ExecuteTrade(plan, p, b, r)
  \/ \E plan \in running, p \in EntryPrices \cup {NoPrice}, ok \in BOOLEAN :
        ExitTrade(plan, p, ok)
  \/ \E t \in TradeIds, p \in TickPrices :
        CheckTradeConditions(t, p, maxExitTimePassed)
  \/ MaxExitTimePasses
  \/ \E t \in TradeIds : aiExits < MaxAiExits /\ ExecuteTradeExit(t)

Spec == Init /\ [][Next]_vars

(* ---- the agent acting on price alerts only ---------------------------- *)
(* AgenticTradingOrchestrator.handlePriceAlert: the orchestrator listens to *)
(* "tradeExit" next to the watcher, finds the trade and asks the agent,     *)
(* which answers the alert with its tool executeTradeExit                   *)
HandlePriceAlert ==
  /\ aiExits < Len(emitted)
  /\ ExecuteTradeExit(emitted[aiExits + 1].tradeId)

NextAlert ==
  \/ \E s \in SignalIds :
        deliveries < MaxDeliveries /\ HandleSignalChange(s)
  \/ \E s \in SignalIds, u \in Users, d \in DirectoryReads :
        /\ nextTradeId <= MaxTrades
        /\ ProcessSubscriber(s, u, d.userSafe, d.activeDeployments)
  \/ \E s \in SignalIds : FinishSignal(s)
  \/ ProcessExecutionQueue
  \/ \E plan \in running, p \in EntryPrices \cup {NoPrice}, b \in BOOLEAN,
        r \in SettledReceipts : ExecuteTrade(plan, p, b, r)
  \/ \E plan \in running, p \in EntryPrices \cup {NoPrice}, ok \in BOOLEAN :
        ExitTrade(plan, p, ok)
  \/ \E t \in TradeIds, p \in TickPrices :
        CheckTradeConditions(t, p, maxExitTimePassed)
  \/ MaxExitTimePasses
  \/ aiExits < MaxAiExits /\ HandlePriceAlert

SpecAlert == Init /\ [][NextAlert]_vars

(* ---- the enter path alone, with every outcome of the swap's receipt --- *)
NextEnter ==
  \/ \E s \in SignalIds :
        deliveries < MaxDeliveries /\ HandleSignalChange(s)
  \/ \E s \in SignalIds, u \in Users, d \in DirectoryReads :
        /\ nextTradeId <= MaxAdmitted
        /\ ProcessSubscriber(s, u, d.userSafe, d.activeDeployments)
  \/ \E s \in SignalIds : FinishSignal(s)
  \/ ProcessExecutionQueue
  \/ \E plan \in running, p \in EntryPrices \cup {NoPrice}, b \in BOOLEAN,
        r \in Receipts : ExecuteTrade(plan, p, b, r)

SpecEnter == Init /\ [][NextEnter]_vars

(* --------------------------- ApiSignalProcessor ------------------------ *)
(* processApiSignal around processSignalEnhanced, once the token detection, *)
(* the Safe validation, the position sizing and the swap have answered.     *)
(* The signalId is a fresh uuid, so the processingQueue test never fires.   *)
(* ErrorHandlingService: the keys of errorMap; createError keeps the code  *)
(* it is given and takes the message of UNKNOWN_ERROR for an unmapped code  *)
errorMap ==
  {"TOKEN_NOT_FOUND", "TOKEN_CHAIN_MISMATCH", "UNSUPPORTED_NETWORK",
   "SAFE_NOT_DEPLOYED", "SAFE_NOT_FOUND", "SAFE_INSUFFICIENT_BALANCE",
   "SAFE_INVALID_CONFIGURATION", "INSUFFICIENT_USDC_BALANCE",
   "POSITION_SIZE_TOO_SMALL", "POSITION_SIZE_TOO_LARGE",
   "INVALID_POSITION_PERCENTAGE", "SWAP_QUOTE_FAILED",
   "SWAP_EXECUTION_FAILED", "INSUFFICIENT_LIQUIDITY", "SLIPPAGE_TOO_HIGH",
   "RPC_CONNECTION_FAILED", "NETWORK_CONGESTION", "TRANSACTION_TIMEOUT",
   "PRICE_DATA_UNAVAILABLE", "API_RATE_LIMITED", "INVALID_SIGNAL_FORMAT",
   "SIGNAL_EXPIRED", "INVALID_PRICE_LEVELS", "DATABASE_CONNECTION_FAILED",
   "CONFIGURATION_ERROR", "UNKNOWN_ERROR"}

createError(code) ==
  [code |-> code,
   message |-> IF code \in errorMap THEN code ELSE "UNKNOWN_ERROR"]

(* validateSignalData: TRUE when it returns, FALSE when it throws *)
validateSignalData(signalData) ==
  /\ signalData.side \in {"buy", "sell"}
  /\ signalData.username # ""
  /\ signalData.currentPrice > 0
  /\ signalData.maxExitTime # "absent"
  /\ IF signalData.side = "buy"
     THEN /\ ~(signalData.TP1 <= signalData.currentPrice)
          /\ ~(signalData.SL >= signalData.currentPrice)
     ELSE /\ ~(signalData.TP1 >= signalData.currentPrice)
          /\ ~(signalData.SL <= signalData.currentPrice)

ProcessApiSignal(signalData, tokenFound, compatible, sizeOk, swapOk) ==
  LET signalId == nextSignalId
      username == signalData.username
      tradeId == <<signalId, username>>
      valid == validateSignalData(signalData)
      success == valid /\ tokenFound /\ compatible /\ sizeOk /\ swapOk
      tradingError == createError("SIGNAL_PROCESSING_FAILED")
  IN /\ nextSignalId' = nextSignalId + 1
     /\ swaps' = IF success THEN Append(swaps, tradeId) ELSE swaps
     /\ apiReplies' = Append(apiReplies,
          IF success
          THEN [signalId |-> signalId, userId |-> username,
                tradeId |-> tradeId, networkKey |-> "arbitrum",
                status |-> "success"]
          ELSE [signalId |-> signalId, userId |-> username,
                tradeId |-> <<signalId>>, networkKey |-> "unknown",
                status |-> "failed", error |-> tradingError.message])
     /\ validated' = signalData
     /\ UNCHANGED <<storeVars, executionQueue, nextSeq, running, received,
                    aiExits, watcherVars, monitorVars>>
     /\ UNCHANGED <<allowances, swapCalls, sizing, validation, entryReceipts,
                    resolverVars, orchestratorVars>>

ApiSignals ==
  [side : SignalMessages, currentPrice : CurrentPrices, TP1 : SignalTP1s,
   TP2 : SignalTP2s, SL : SignalSLs, maxExitTime : MaxExitTimes,
   username : Users]

(* the signals posted while the watcher admits: a well-formed buy and one   *)
(* whose "Signal Message" is neither buy nor sell                           *)
AdmissionSignals ==
  {signalData \in ApiSignals :
     /\ signalData.side \in {"buy", "hold"}
     /\ signalData.currentPrice = 100
     /\ signalData.TP1 = 105 /\ signalData.TP2 = 110 /\ signalData.SL = 95
     /\ signalData.maxExitTime = "future"}

(* ---- admission alone: both entry points, no drain of the queue -------- *)
NextAdmission ==
  \/ \E s \in SignalIds :
        deliveries < MaxRedeliveries /\ HandleSignalChange(s)
  \/ \E s \in SignalIds, u \in Users, d \in DirectoryReads :
        /\ nextTradeId <= MaxAdmitted
        /\ ProcessSubscriber(s, u, d.userSafe, d.activeDeployments)
  \/ \E s \in SignalIds : FinishSignal(s)
  \/ \E signalData \in AdmissionSignals, tokenFound \in BOOLEAN,
        compatible \in BOOLEAN, sizeOk \in BOOLEAN, swapOk \in BOOLEAN :
        /\ nextSignalId <= MaxApiSignals
        /\ ProcessApiSignal(signalData, tokenFound, compatible, sizeOk, swapOk)

SpecAdmission == Init /\ [][NextAdmission]_vars

(* ---- processApiSignal alone: one signal of any shape is followed ------ *)
NextSignal ==
  \E signalData \in ApiSignals, tokenFound \in BOOLEAN,
     compatible \in BOOLEAN, sizeOk \in BOOLEAN, swapOk \in BOOLEAN :
       /\ nextSignalId = 1
       /\ ProcessApiSignal(signalData, tokenFound, compatible, sizeOk, swapOk)

SpecSignal == Init /\ [][NextSignal]_vars

(* ------------- the monitor with overlapping ticks and the agent -------- *)
(* checkTradeConditions: "if (currentPrice === null) continue", the skip of *)
(* an iteration without the null test                                       *)
priceUnavailableNever(currentPrice) == FALSE

(* checkTradeConditions: "currentPrice === null", the result getCurrentPrice *)
(* gives when the token is unknown, the reply has no price or the request   *)
(* throws                                                                   *)
priceUnavailable(currentPrice) == currentPrice = NoPrice

(* checkTradeConditions: the loop reaches a monitored trade and awaits its  *)
(* price; the next interval tick may start before this one has resumed      *)
CheckTradeConditionsRead(tradeId) ==
  /\ tradeId \in DOMAIN tradeMonitoringConfigs
  /\ checking' = Append(checking, tradeMonitoringConfigs[tradeId])
  /\ UNCHANGED <<storeVars, executionQueue, nextSeq, running, clientVars,
                 watcherVars, attachVars, emitted, tradeExit, modifies,
                 maxExitTimePassed, lookupFailed>>
  /\ UNCHANGED serviceVars

(* checkTradeConditions: the iteration resumes with the price, on the       *)
(* config it read before the await; emit, handleTradeExit, detach           *)
CheckTradeConditionsResume(i, currentPrice, expired) ==
  /\ i \in DOMAIN checking
  /\ checking' = SubSeq(checking, 1, i - 1) \o
                 SubSeq(checking, i + 1, Len(checking))
  /\ LET config == checking[i]
         tradeId == config.tradeId
         high0 == IF tradeId \in DOMAIN trailingHighs
                  THEN trailingHighs[tradeId] ELSE NoPrice
         res == checkTradeConditions(config, high0, currentPrice, expired)
         mon == removeTradeMonitoring(tradeMonitoringConfigs, trailingHighs,
                                      tradeId)
         found == getTrade(activeTrades, tradeHistory, tradeId) # NoTrade
     IN IF priceUnavailable(currentPrice) \/ res.exitCondition = "none"
        THEN UNCHANGED <<executionQueue, nextSeq, attachVars, emitted, tradeExit>>
        ELSE /\ executionQueue' =
                  IF found
                  THEN queueTradeExecution(executionQueue,
                         Plan("exit", tradeId, res.exitCondition,
                              exitUrgency(res.exitCondition)))
                  ELSE executionQueue
             /\ nextSeq' = IF found THEN nextSeq + 1 ELSE nextSeq
             /\ tradeMonitoringConfigs' = mon.configs
             /\ trailingHighs' = mon.highs
             /\ tradeExit' = [tradeId |-> tradeId,
                              exitCondition |-> res.exitCondition,
                              exitPrice |-> currentPrice, config |-> config]
             /\ emitted' = Append(emitted, [tradeId |-> tradeId,
                                            exitCondition |-> res.exitCondition])
  /\ lookupFailed' = (currentPrice = NoPrice)
  /\ UNCHANGED <<storeVars, running, clientVars, watcherVars, modifies,
                 maxExitTimePassed>>
  /\ UNCHANGED serviceVars

(* agent tool modifyTradeStrategy: rewrite the trade, detach, attach again *)
ModifyTradeStrategy(tradeId, newStopLoss, newTp1, newTp2, enableTrailingStop) ==
  /\ getTrade(activeTrades, tradeHistory, tradeId) # NoTrade
  /\ modifies' = modifies + 1
  /\ LET trade0 == getTrade(activeTrades, tradeHistory, tradeId)
         trade == [trade0 EXCEPT
                     !.stopLoss = IF newStopLoss # NoPrice THEN newStopLoss ELSE @,
                     !.tp1 = IF newTp1 # NoPrice THEN newTp1 ELSE @,
                     !.tp2 = IF newTp2 # NoPrice THEN newTp2 ELSE @]
         off == removeTradeMonitoring(tradeMonitoringConfigs, trailingHighs,
                                      tradeId)
         mon == addTradeMonitoring(off.configs, off.highs,
                  [tradeId |-> tradeId, entryPrice |-> trade.entryPrice,
                   tp1 |-> trade.tp1, tp2 |-> trade.tp2,
                   stopLoss |-> trade.stopLoss,
                   trailingStopEnabled |-> enableTrailingStop,
                   trailingStopRetracement |-> TrailingStopRetracement])
     IN /\ activeTrades' = IF tradeId \in DOMAIN activeTrades
                           THEN [activeTrades EXCEPT ![tradeId] = trade]
                           ELSE activeTrades
        /\ tradeHistory' = IF tradeId \in DOMAIN activeTrades
                           THEN tradeHistory
                           ELSE [tradeHistory EXCEPT ![tradeId] = trade]
        /\ tradeMonitoringConfigs' = mon.configs
        /\ trailingHighs' = mon.highs
  /\ UNCHANGED <<nextTradeId, executionQueue, nextSeq, running, clientVars,
                 watcherVars, checking, emitted, tradeExit, maxExitTimePassed,
                 lookupFailed>>
  /\ UNCHANGED serviceVars

(* the monitor keeps its state per trade: one trade of one subscriber is    *)
(* followed from its admission on                                           *)
MonitoredTrades == {1}

NextMonitor ==
  \/ \E s \in SignalIds :
        deliveries = 0 /\ HandleSignalChange(s)
  \/ \E s \in SignalIds, u \in Users :
        /\ nextTradeId \in MonitoredTrades
        /\ pendingSubs[s] = Users
        /\ ProcessSubscriber(s, u, TRUE, {"arbitrum"})
  \/ ProcessExecutionQueue
  \/ \E plan \in running, p \in MonitorEntryPrices \cup {NoPrice} :
        ExecuteTrade(plan, p, TRUE, "success")
  \/ /\ Len(checking) < MaxOverlap
     /\ \E t \in TradeIds : CheckTradeConditionsRead(t)
  \/ /\ Len(emitted) < MaxEmissions
     /\ \E i \in DOMAIN checking, p \in Prices \cup {NoPrice} :
           CheckTradeConditionsResume(i, p, maxExitTimePassed)
  \/ MaxExitTimePasses
  \/ /\ modifies < MaxModifies
     /\ \E t \in TradeIds, sl \in NewStopLosses, tp1 \in NewTargets,
           tp2 \in NewTargets, ts \in BOOLEAN :
           ModifyTradeStrategy(t, sl, tp1, tp2, ts)

SpecMonitor == Init /\ [][NextMonitor]_vars

(* ------------------- TradeExecutionService.executeSwap ----------------- *)
getTokenAddress(tokenSymbol) ==
  IF tokenSymbol = "ETH" THEN NATIVE_ETH_ADDRESS ELSE tokenSymbol

isNativeTokenAddress(address) == address = NATIVE_ETH_ADDRESS

SetSwapCall(c, call) == [swapCalls EXCEPT ![c] = call]

(* an approval of the Safe that is on chain before executeSwap is called *)
PriorApproval(spender, amount) ==
  /\ \A c \in SwapCalls : swapCalls[c] = NoSwapCall
  /\ allowances[spender] = 0
  /\ allowances' = [allowances EXCEPT ![spender] = amount]
  /\ UNCHANGED <<storeVars, executionQueue, nextSeq, running, clientVars,
                 watcherVars, monitorVars, swapCalls, sizing,
                 validationVars, entryReceipts, resolverVars, orchestratorVars>>

(* executeSwap up to checkTokenBalance *)
ExecuteSwap(c, sellToken, sellAmountWei, hasBalance) ==
  /\ swapCalls[c].pc = "idle"
  /\ swapCalls' = SetSwapCall(c,
       [pc |-> IF ~hasBalance THEN "failed"
               ELSE IF isNativeTokenAddress(getTokenAddress(sellToken))
               THEN "quote" ELSE "permit2",
        sellToken |-> sellToken, sellAmountWei |-> sellAmountWei])
  /\ UNCHANGED <<storeVars, executionQueue, nextSeq, running, clientVars,
                 watcherVars, monitorVars, allowances, sizing,
                 validationVars, entryReceipts, resolverVars, orchestratorVars>>

(* ensurePermit2Allowance / ensureAllowanceHolderAllowance: read the        *)
(* allowance; below the amount, approve the maximum and read it again       *)
ensureAllowance(spender, amount, approved) ==
  IF allowances[spender] >= amount
  THEN [ok |-> TRUE, allowances |-> allowances]
  ELSE IF approved
  THEN [ok |-> maxAllowance >= amount,
        allowances |-> [allowances EXCEPT ![spender] = maxAllowance]]
  ELSE [ok |-> FALSE, allowances |-> allowances]

EnsurePermit2Allowance(c, approved) ==
  /\ swapCalls[c].pc = "permit2"
  /\ LET res == ensureAllowance("permit2", swapCalls[c].sellAmountWei, approved)
     IN /\ allowances' = res.allowances
        /\ swapCalls' = SetSwapCall(c, [swapCalls[c] EXCEPT
                           !.pc = IF res.ok THEN "quote" ELSE "failed"])
  /\ UNCHANGED <<storeVars, executionQueue, nextSeq, running, clientVars,
                 watcherVars, monitorVars, sizing,
                 validationVars, entryReceipts, resolverVars, orchestratorVars>>

GetSwapQuote(c, ok) ==
  /\ swapCalls[c].pc = "quote"
  /\ swapCalls' = SetSwapCall(c, [swapCalls[c] EXCEPT
       !.pc = IF ~ok THEN "failed"
              ELSE IF isNativeTokenAddress(getTokenAddress(swapCalls[c].sellToken))
              THEN "broadcast" ELSE "allowanceHolder"])
  /\ UNCHANGED <<storeVars, executionQueue, nextSeq, running, clientVars,
                 watcherVars, monitorVars, allowances, sizing,
                 validationVars, entryReceipts, resolverVars, orchestratorVars>>

EnsureAllowanceHolderAllowance(c, approved) ==
  /\ swapCalls[c].pc = "allowanceHolder"
  /\ LET res == ensureAllowance("allowanceHolder", swapCalls[c].sellAmountWei,
                                approved)
     IN /\ allowances' = res.allowances
        /\ swapCalls' = SetSwapCall(c, [swapCalls[c] EXCEPT
                           !.pc = IF res.ok THEN "broadcast" ELSE "failed"])
  /\ UNCHANGED <<storeVars, executionQueue, nextSeq, running, clientVars,
                 watcherVars, monitorVars, sizing,
                 validationVars, entryReceipts, resolverVars, orchestratorVars>>

(* protocolKit.executeTransaction of the swap: the AllowanceHolder pulls    *)
(* the sell amount, which spends a finite allowance                         *)
ExecuteTransaction(c) ==
  /\ swapCalls[c].pc = "broadcast"
  /\ swapCalls' = SetSwapCall(c, [swapCalls[c] EXCEPT !.pc = "sent"])
  /\ LET amount == swapCalls[c].sellAmountWei
         allowance == allowances["allowanceHolder"]
     IN allowances' =
          IF \/ isNativeTokenAddress(getTokenAddress(swapCalls[c].sellToken))
             \/ allowance = maxAllowance
             \/ allowance < amount
          THEN allowances
          ELSE [allowances EXCEPT !["allowanceHolder"] = allowance - amount]
  /\ UNCHANGED <<storeVars, executionQueue, nextSeq, running, clientVars,
                 watcherVars, monitorVars, sizing,
                 validationVars, entryReceipts, resolverVars, orchestratorVars>>

NextSwap ==
  \/ \E spender \in Spenders, amount \in PriorAllowances :
        PriorApproval(spender, amount)
  \/ \E c \in SwapCalls, t \in SellTokens, a \in SellAmounts, b \in BOOLEAN :
        ExecuteSwap(c, t, a, b)
  \/ \E c \in SwapCalls, approved \in BOOLEAN :
        EnsurePermit2Allowance(c, approved)
  \/ \E c \in SwapCalls, ok \in BOOLEAN : GetSwapQuote(c, ok)
  \/ \E c \in SwapCalls, approved \in BOOLEAN :
        EnsureAllowanceHolderAllowance(c, approved)
  \/ \E c \in SwapCalls : ExecuteTransaction(c)

SpecSwap == Init /\ [][NextSwap]_vars

(* ------------------------- PositionSizingService ----------------------- *)
nativeTokens == [networkKey \in {"arbitrum"} |-> "ETH"]

isNativeToken(tokenSymbol, networkKey) ==
  networkKey \in DOMAIN nativeTokens /\ nativeTokens[networkKey] = tokenSymbol

tokenDecimals(tokenSymbol) == IF tokenSymbol = "USDC" THEN 6 ELSE 18

calculateGasReserve(baseTokenSymbol, networkKey) ==
  IF isNativeToken(baseTokenSymbol, networkKey) THEN minimumGasReserve ELSE 0

calculateAvailableBalance(totalBalance, gasReserve, decimals) ==
  IF decimals # 18 THEN totalBalance
  ELSE IF totalBalance - gasReserve > 0 THEN totalBalance - gasReserve ELSE 0

calculatePercentageAmount(balance, percentage) ==
  (balance * (percentage * 100)) \div 10000

calculatePositionSize(baseTokenSymbol, networkKey, balanceOk, balance, positionPercentage, minimumOk) ==
  LET percentage == IF positionPercentage = 0 THEN defaultPercentage
                    ELSE positionPercentage
      failure == [success |-> FALSE, positionSizePercentage |-> percentage,
                  positionSizeWei |-> 0, meetsMinimum |-> FALSE]
      availableBalance ==
        calculateAvailableBalance(balance,
          calculateGasReserve(baseTokenSymbol, networkKey),
          tokenDecimals(baseTokenSymbol))
      positionSizeWei == calculatePercentageAmount(availableBalance, percentage)
  IN IF percentage <= 0 \/ percentage > maxPositionPercentage THEN failure
     ELSE IF ~balanceOk THEN failure
     ELSE [success |-> TRUE, positionSizePercentage |-> percentage,
           positionSizeWei |-> positionSizeWei,
           meetsMinimum |-> minimumOk /\ positionSizeWei > 0]

CalculatePositionSize(baseTokenSymbol, networkKey, balanceOk, balance, positionPercentage, minimumOk) ==
  /\ sizing' = [baseTokenSymbol |-> baseTokenSymbol, networkKey |-> networkKey,
                balance |-> balance,
                result |-> calculatePositionSize(baseTokenSymbol, networkKey,
                             balanceOk, balance, positionPercentage, minimumOk)]
  /\ UNCHANGED <<storeVars, executionQueue, nextSeq, running, clientVars,
                 watcherVars, monitorVars, allowances, swapCalls,
                 validationVars, entryReceipts, resolverVars, orchestratorVars>>

NextSizing ==
  \E t \in BaseTokens, n \in SizingNetworks, ok \in BOOLEAN, b \in Balances,
     pct \in PositionPercentages, min \in BOOLEAN :
       CalculatePositionSize(t, n, ok, b, pct, min)

SpecSizing == Init /\ [][NextSizing]_vars

(* ---------------------- SafeChainValidationService --------------------- *)
(* String.prototype.toLowerCase on the addresses of the model *)
toLowerCase(address) == IF address = "0xAb" THEN "0xab" ELSE address

hasNetworkDeployment(deployment, networkKey) ==
  deployment.deployments[networkKey] # NoDeployment

directDeploymentMatches(deployment, safeAddress, networkKey) ==
  /\ deployment.safeAddress # "none"
  /\ toLowerCase(deployment.safeAddress) = toLowerCase(safeAddress)
  /\ deployment.networkKey = networkKey
  /\ deployment.isActive

(* checkUserDeploymentOnChain that does not compare the address *)
checkUserDeploymentOnChainAnyAddress(safeAddress, networkKey, userSafeDeployments) ==
  LET decisive == {i \in DOMAIN userSafeDeployments :
                     \/ hasNetworkDeployment(userSafeDeployments[i], networkKey)
                     \/ directDeploymentMatches(userSafeDeployments[i],
                                                safeAddress, networkKey)}
  IN IF decisive = {} THEN FALSE
     ELSE LET i == CHOOSE k \in decisive : \A l \in decisive : k <= l
              deployment == userSafeDeployments[i]
          IN IF hasNetworkDeployment(deployment, networkKey)
             THEN LET networkDeployment == deployment.deployments[networkKey]
                  IN /\ networkDeployment.isActive
                     /\ networkDeployment.deploymentStatus = "deployed"
             ELSE TRUE

(* the loop returns at the first document that has an entry for the network *)
(* (with the verdict on that entry) or that matches as a direct deployment  *)
checkUserDeploymentOnChain(safeAddress, networkKey, userSafeDeployments) ==
  LET decisive == {i \in DOMAIN userSafeDeployments :
                     \/ hasNetworkDeployment(userSafeDeployments[i], networkKey)
                     \/ directDeploymentMatches(userSafeDeployments[i],
                                                safeAddress, networkKey)}
  IN IF decisive = {} THEN FALSE
     ELSE LET i == CHOOSE k \in decisive : \A l \in decisive : k <= l
              deployment == userSafeDeployments[i]
          IN IF hasNetworkDeployment(deployment, networkKey)
             THEN LET networkDeployment == deployment.deployments[networkKey]
                  IN /\ toLowerCase(networkDeployment.address) =
                          toLowerCase(safeAddress)
                     /\ networkDeployment.isActive
                     /\ networkDeployment.deploymentStatus = "deployed"
             ELSE TRUE

getUserDeploymentNetworks(userSafeDeployments) ==
  {n \in ValidationNetworks : \E i \in DOMAIN userSafeDeployments :
     LET deployment == userSafeDeployments[i]
     IN \/ /\ hasNetworkDeployment(deployment, n)
           /\ deployment.deployments[n].isActive
           /\ deployment.deployments[n].deploymentStatus = "deployed"
        \/ /\ deployment.safeAddress # "none"
           /\ deployment.networkKey = n
           /\ deployment.isActive}

(* the wallet as the chain holds it, and the read that answers: the Safe   *)
(* SDK, the direct contract calls after the SDK failed, or neither          *)
OnChainSafes ==
  [owners : {<<>>, <<"0xowner">>}, threshold : {0, 1},
   read : {"sdk", "basic", "none"}]

(* getSafeDetails with its fallbacks getSafeDetailsBasic and the defaults   *)
getSafeDetails(safe) ==
  IF safe.read = "sdk"
  THEN [owners |-> safe.owners, threshold |-> safe.threshold]
  ELSE IF safe.read = "basic"
  THEN [owners |-> safe.owners,
        threshold |-> IF safe.threshold = 0 THEN 1 ELSE safe.threshold]
  ELSE [owners |-> <<>>, threshold |-> 1]

(* validateSafeOnChain: the cache never answers (no result carries the      *)
(* cachedAt that isCacheValid reads), so getCode is asked on every call;    *)
(* code[networkKey] tells whether getCode(safeAddress) differs from "0x"    *)
validateSafeOnChain(safeAddress, networkKey, code, safe) ==
  IF code[networkKey]
  THEN [isValid |-> TRUE, isDeployed |-> TRUE,
        owners |-> getSafeDetails(safe).owners,
        threshold |-> getSafeDetails(safe).threshold]
  ELSE [isValid |-> FALSE, isDeployed |-> FALSE]

validateSafeForToken(safeAddress, tokenDetection, userSafeDeployments, code, safe) ==
  LET primaryChain == tokenDetection.primaryChain
      usable(n) ==
        /\ checkUserDeploymentOnChain(safeAddress, n, userSafeDeployments)
        /\ validateSafeOnChain(safeAddress, n, code, safe).isValid
        /\ validateSafeOnChain(safeAddress, n, code, safe).isDeployed
      userNetworks == getUserDeploymentNetworks(userSafeDeployments)
      isAlternative(n) == n # primaryChain /\ n \in userNetworks
      alternativeChains == SelectSeq(tokenDetection.tokenInfo, isAlternative)
      found == {i \in DOMAIN alternativeChains : usable(alternativeChains[i])}
  IN IF \E i \in DOMAIN userSafeDeployments : userSafeDeployments[i] = NoSafeDoc
     THEN [hasCompatibleSafe |-> FALSE, networkKey |-> NoNetwork]
     ELSE IF ~tokenDetection.success \/ primaryChain = NoNetwork
     THEN [hasCompatibleSafe |-> FALSE, networkKey |-> NoNetwork]
     ELSE IF usable(primaryChain)
     THEN [hasCompatibleSafe |-> TRUE, networkKey |-> primaryChain]
     ELSE IF found # {}
     THEN [hasCompatibleSafe |-> TRUE,
           networkKey |-> alternativeChains[CHOOSE i \in found :
                                              \A j \in found : i <= j]]
     ELSE [hasCompatibleSafe |-> FALSE, networkKey |-> primaryChain]

(* processSignalEnhanced, step 4: validateSafeForToken on the document of   *)
(* getUserSafe, and the error thrown when no compatible Safe is reported    *)
ValidateSafeForToken(safeAddress, tokenDetection, userSafe, code, safe) ==
  /\ LET safeCompatibility ==
           validateSafeForToken(safeAddress, tokenDetection, <<userSafe>>, code,
                                safe)
     IN validation' =
          [safeAddress |-> safeAddress, userSafeDeployments |-> <<userSafe>>,
           code |-> code, safe |-> safe, result |-> safeCompatibility,
           error |-> IF ~safeCompatibility.hasCompatibleSafe
                     THEN createError("SAFE_NOT_DEPLOYED").code ELSE "none"]
  /\ UNCHANGED <<storeVars, executionQueue, nextSeq, running, clientVars,
                 watcherVars, monitorVars, allowances, swapCalls, sizing,
                 validated, entryReceipts, resolverVars, orchestratorVars>>

(* the results of detectTokenChains: the chains of the token in ranked      *)
(* order and the primary chain, one of them                                 *)
TokenDetections ==
  {d \in [success : BOOLEAN,
          tokenInfo : {<<>>, <<"arbitrum">>, <<"base">>,
                       <<"arbitrum", "base">>, <<"base", "arbitrum">>},
          primaryChain : ValidationNetworks \cup {NoNetwork}] :
     IF d.success
     THEN \E i \in DOMAIN d.tokenInfo : d.tokenInfo[i] = d.primaryChain
     ELSE d.tokenInfo = <<>> /\ d.primaryChain = NoNetwork}

NetworkDeployments ==
  {NoDeployment} \cup [address : StoredAddresses, isActive : BOOLEAN,
                       deploymentStatus : {"deployed", "pending"}]

(* the Safe documents of the directory; the top-level fields of a direct    *)
(* deployment are absent or present                                         *)
SafeDocs ==
  {NoSafeDoc} \cup
  [deployments : [ValidationNetworks -> NetworkDeployments],
   safeAddress : {"none"}, networkKey : {NoNetwork}, isActive : {FALSE}] \cup
  [deployments : [ValidationNetworks -> {NoDeployment}],
   safeAddress : StoredAddresses, networkKey : ValidationNetworks,
   isActive : BOOLEAN]

(* the service keeps nothing from one call to the next, so one call is     *)
(* followed                                                                 *)
NextSafe ==
  /\ validation = NoValidation
  /\ \E a \in SubmittedAddresses, d \in TokenDetections, doc \in SafeDocs,
        code \in [ValidationNetworks -> BOOLEAN], safe \in OnChainSafes :
          ValidateSafeForToken(a, d, doc, code, safe)

SpecSafe == Init /\ [][NextSafe]_vars

(* ---------------------- TokenChainDetectionService --------------------- *)
MaxLookups == 2       \* SpecResolver: calls of detectTokenChains
MaxClock == 6         \* SpecResolver: minutes followed by the clock
CACHE_TTL == 5        \* 5 * 60 * 1000 ms, in minutes

(* the symbols of the requests: one of TOKEN_MAP, one unknown to it in two  *)
(* spellings                                                                *)
TokenSymbols == {"ARB", "PEPE", "pepe"}

toUpperCase(symbol) == IF symbol = "pepe" THEN "PEPE" ELSE symbol

(* NetworkUtils.getTokenInfo: TOKEN_MAP[symbol.toUpperCase()] || null *)
getTokenInfo(symbol) == toUpperCase(symbol) \in {"ARB"}

checkKnownTokens(tokenSymbol) ==
  IF getTokenInfo(tokenSymbol)
  THEN [success |-> TRUE, source |-> "known"]
  ELSE [success |-> FALSE, source |-> "none"]

(* isCacheValid: Date.now() - cached.cachedAt < CACHE_TTL; a result without *)
(* the field gives undefined, the difference is NaN and the test is false   *)
isCacheValid(cached, now) ==
  IF "cachedAt" \in DOMAIN cached
  THEN now - cached.cachedAt < CACHE_TTL
  ELSE FALSE

tradingVars == <<storeVars, executionQueue, nextSeq, running, clientVars, watcherVars, monitorVars>>

(* detectTokenChains up to the await of the external sources *)
DetectTokenChains(tokenSymbol) ==
  /\ LET cacheKey == toUpperCase(tokenSymbol)
         hit == /\ cacheKey \in DOMAIN cache
                /\ isCacheValid(cache[cacheKey], clock)
         knownTokenInfo == checkKnownTokens(tokenSymbol)
         done(source) == [cacheKey |-> cacheKey, started |-> clock,
                          after |-> Len(detections), finished |-> clock,
                          source |-> source]
     IN IF hit
        THEN /\ detections' = Append(detections, done("cache"))
             /\ UNCHANGED <<cache, inflight>>
        ELSE IF knownTokenInfo.success
        THEN /\ cache' = (cacheKey :> knownTokenInfo) @@ cache
             /\ detections' = Append(detections, done("known"))
             /\ UNCHANGED inflight
        ELSE /\ inflight' = Append(inflight, [cacheKey |-> cacheKey,
                                              started |-> clock,
                                              after |-> Len(detections)])
             /\ UNCHANGED <<cache, detections>>
  /\ UNCHANGED <<tradingVars, allowances, swapCalls, sizing, validationVars,
                 entryReceipts, clock, orchestratorVars>>

(* detectTokenChains: the external sources have settled; the result, found  *)
(* or not, is stored in the cache                                           *)
DetectTokenChainsResume(i, found) ==
  /\ i \in DOMAIN inflight
  /\ inflight' = SubSeq(inflight, 1, i - 1) \o
                 SubSeq(inflight, i + 1, Len(inflight))
  /\ cache' = (inflight[i].cacheKey :>
                 [success |-> found, source |-> "external"]) @@ cache
  /\ detections' = Append(detections,
                     [cacheKey |-> inflight[i].cacheKey,
                      started |-> inflight[i].started,
                      after |-> inflight[i].after,
                      finished |-> clock, source |-> "external"])
  /\ UNCHANGED <<tradingVars, allowances, swapCalls, sizing, validationVars,
                 entryReceipts, clock, orchestratorVars>>

(* a minute passes *)
Tick ==
  /\ clock' = clock + 1
  /\ UNCHANGED <<tradingVars, allowances, swapCalls, sizing, validationVars,
                 entryReceipts, cache, inflight, detections, orchestratorVars>>

NextResolver ==
  \/ \E symbol \in TokenSymbols :
        /\ Len(detections) + Len(inflight) < MaxLookups
        /\ DetectTokenChains(symbol)
  \/ \E i \in DOMAIN inflight, found \in BOOLEAN :
        DetectTokenChainsResume(i, found)
  \/ clock < MaxClock /\ Tick

SpecResolver == Init /\ [][NextResolver]_vars

(* ---------- AgenticTradingOrchestrator: the tools of the agent --------- *)
MaxSignalCalls == 2   \* SpecPending: calls of executeSignalForSubscribers

(* handleNewSignal: the inserted signal is set pending and the agent asked *)
HandleNewSignal(s) ==
  /\ s \notin pendingSignals
  /\ s \notin rejected
  /\ signalCalls = <<>>
  /\ pendingSignals' = pendingSignals \cup {s}
  /\ UNCHANGED <<tradingVars, allowances, swapCalls, sizing, validationVars,
                 entryReceipts, resolverVars, signalCalls, rejected>>

(* executeSignalForSubscribers up to the first await of its loop: the       *)
(* signal is read from pendingSignals, or the call throws                   *)
ExecuteSignalForSubscribers(signalId, approvedUsers) ==
  /\ signalCalls' = Append(signalCalls,
       [signalId |-> signalId,
        approvedUsers |-> IF signalId \in pendingSignals
                          THEN approvedUsers ELSE <<>>,
        created |-> {},
        status |-> IF signalId \in pendingSignals
                   THEN "running" ELSE "thrown"])
  /\ UNCHANGED <<tradingVars, allowances, swapCalls, sizing, validationVars,
                 entryReceipts, resolverVars, pendingSignals, rejected>>

(* executeSignalForSubscribers: one iteration of the loop once getUserSafe  *)
(* and getActiveDeployments have answered; after the last one the signal is *)
(* deleted from pendingSignals                                              *)
ExecuteSignalForUser(c, userSafe, activeDeployments) ==
  /\ c \in DOMAIN signalCalls
  /\ signalCalls[c].status = "running"
  /\ LET call == signalCalls[c]
         username == Head(call.approvedUsers)
         rest == Tail(call.approvedUsers)
         optimalNetwork == determineOptimalNetwork(activeDeployments)
         skipped == ~userSafe \/ activeDeployments = {}
                    \/ optimalNetwork = NoNetwork
     IN /\ IF skipped
           THEN UNCHANGED <<storeVars, executionQueue, nextSeq>>
           ELSE /\ activeTrades' = createTradeEntry(activeTrades, nextTradeId,
                                     username, call.signalId, optimalNetwork)
                /\ nextTradeId' = nextTradeId + 1
                /\ executionQueue' = queueTradeExecution(executionQueue,
                      Plan("enter", nextTradeId, "AI-approved signal", "high"))
                /\ nextSeq' = nextSeq + 1
                /\ UNCHANGED tradeHistory
        /\ signalCalls' = [signalCalls EXCEPT ![c] =
             [call EXCEPT !.approvedUsers = rest,
                          !.created = IF skipped THEN @
                                      ELSE @ \cup {nextTradeId},
                          !.status = IF rest = <<>> THEN "done" ELSE @]]
        /\ pendingSignals' = IF rest = <<>>
                             THEN pendingSignals \ {call.signalId}
                             ELSE pendingSignals
  /\ UNCHANGED <<running, clientVars, watcherVars, monitorVars, allowances,
                 swapCalls, sizing, validationVars, entryReceipts,
                 resolverVars, rejected>>

(* rejectSignal *)
RejectSignal(signalId) ==
  /\ pendingSignals' = pendingSignals \ {signalId}
  /\ rejected' = rejected \cup {signalId}
  /\ UNCHANGED <<tradingVars, allowances, swapCalls, sizing, validationVars,
                 entryReceipts, resolverVars, signalCalls>>

(* the lists of approved users the agent passes to the tool *)
ApprovedUsers == {<<u>> : u \in Users} \cup {<<"u1", "u2">>}

(* the agent knows a signalId from the prompt of handleNewSignal *)
NextPending ==
  \/ \E s \in SignalIds : HandleNewSignal(s)
  \/ \E s \in SignalIds, users \in ApprovedUsers :
        /\ Len(signalCalls) < MaxSignalCalls
        /\ s \in pendingSignals \cup rejected
             \cup {signalCalls[c].signalId : c \in DOMAIN signalCalls}
        /\ ExecuteSignalForSubscribers(s, users)
  \/ \E c \in DOMAIN signalCalls, d \in DirectoryReads :
        ExecuteSignalForUser(c, d.userSafe, d.activeDeployments)
  \/ \E s \in SignalIds :
        /\ s \notin rejected
        /\ s \in pendingSignals
             \cup {signalCalls[c].signalId : c \in DOMAIN signalCalls}
        /\ RejectSignal(s)

SpecPending == Init /\ [][NextPending]_vars

(* ---- the queue of TradeStateManager driven directly by a client ------- *)
QueueTradeExecution(action, tradeId, urgency) ==
  /\ executionQueue' = queueTradeExecution(executionQueue,
         Plan(action, tradeId,
              IF action = "enter" THEN "New signal" ELSE "AI decision",
              urgency))
  /\ nextSeq' = nextSeq + 1
  /\ UNCHANGED <<storeVars, running, clientVars, watcherVars, monitorVars>>
  /\ UNCHANGED serviceVars

GetNextExecutionPlan ==
  /\ executionQueue # <<>>
  /\ LET next == getNextExecutionPlan(executionQueue)
     IN /\ executionQueue' = next.rest
        /\ received' = Append(received, next.plan)
  /\ UNCHANGED <<storeVars, nextSeq, running, aiExits, apiVars, watcherVars,
                 monitorVars>>
  /\ UNCHANGED serviceVars

NextQueue ==
  \/ \E a \in Actions, u \in Urgencies :
        nextSeq < MaxQueueOps /\ QueueTradeExecution(a, 1, u)
  \/ GetNextExecutionPlan

SpecQueue == Init /\ [][NextQueue]_vars

(* ---- the queue under a drain timer that keeps firing ------------------ *)
(* one tick of the drain timer; the client has received at most every plan  *)
(* that was ever queued                                                     *)
Drain ==
  /\ Len(received) < MaxQueueOps
  /\ GetNextExecutionPlan

NextDrain ==
  \/ \E a \in Actions, u \in Urgencies :
        nextSeq < MaxQueueOps /\ QueueTradeExecution(a, 1, u)
  \/ Drain

(* setInterval(processExecutionQueue, 5000) is never cleared while the      *)
(* watcher runs: a tick that can take a plan is eventually taken            *)
SpecDrain == Init /\ [][NextDrain]_vars /\ WF_vars(Drain)

(* ======================= properties of the trade store ================== *)
TradeIdsInStore == DOMAIN activeTrades \cup DOMAIN tradeHistory

TradeOf(tradeId) == getTrade(activeTrades, tradeHistory, tradeId)

Last(seq) == seq[Len(seq)]

(* C1: once a Trade is in a terminal state (fully_exited, stopped_out,     *)
(* expired or failed), no later step changes its state.                    *)
TerminalAbsorbing ==
  [][\A t \in TradeIdsInStore :
       TradeOf(t).status \in TerminalStatuses =>
         getTrade(activeTrades', tradeHistory', t).status = TradeOf(t).status]_vars

(* C2: the drain hands a request to the executor only if it is legal in the *)
(* trade's current state: enter only for a pending trade, exit only for a   *)
(* trade that has been entered and is not terminal.                         *)
DrainDispatchesLegal ==
  [][\A plan \in running' \ running :
       /\ plan.action = "enter" => TradeOf(plan.tradeId).status = "pending"
       /\ plan.action = "exit" =>
            TradeOf(plan.tradeId).status \in {"entered", "partially_exited"}]_vars

(* C3: at every instant, for each tradeId at most one request is in         *)
(* execution.                                                               *)
SingleInFlight ==
  \A t \in TradeIds : Cardinality({plan \in running : plan.tradeId = t}) <= 1

(* C7: the exit percentages recorded on a Trade always sum to a value in    *)
(* [0, 100].                                                                *)
ExitSumBounded ==
  \A t \in TradeIdsInStore :
     /\ totalExitPercentage(TradeOf(t)) >= 0
     /\ totalExitPercentage(TradeOf(t)) <= 100

(* C8: whenever the exit percentages of a Trade sum to exactly 100, the     *)
(* Trade's state is fully_exited (not stopped_out, expired or anything      *)
(* else).                                                                   *)
FullExitIsExited ==
  \A t \in TradeIdsInStore :
     totalExitPercentage(TradeOf(t)) = 100 =>
        TradeOf(t).status = "fully_exited"

(* a trade that was entered, then exited once in full, now in the history *)
FullExitReached ==
  \E t \in DOMAIN tradeHistory :
     /\ Len(tradeHistory[t].exitEvents) = 1
     /\ totalExitPercentage(tradeHistory[t]) = 100
     /\ tradeHistory[t].status = "fully_exited"
     /\ t \notin DOMAIN tradeMonitoringConfigs

(* ========================= properties of admission ====================== *)
TradesFor(s, u) ==
  {t \in TradeIdsInStore :
     TradeOf(t).signalId = s /\ TradeOf(t).userId = u}

NewPairs(s) == tradingPairs'[s] \ tradingPairs[s]

(* C4: delivering the same signal a second time has the side effects of     *)
(* delivering it once: no further Trade is created for a subscriber that    *)
(* already has one for that signal.                                         *)
IdempotentSubmission ==
  \A s \in SignalIds, u \in Users : Cardinality(TradesFor(s, u)) <= 1

PriorityRespected ==
  [][received' # received =>
       \A i \in 1..Len(executionQueue') :
          urgencyOrder(Last(received').urgency) >=
            urgencyOrder(executionQueue'[i].urgency)]_vars

(* a high plan was handed out ahead of a less urgent plan queued before it *)
OvertakeReached ==
  /\ received # <<>>
  /\ Last(received).urgency = "high"
  /\ \E i \in 1..Len(executionQueue) :
       /\ executionQueue[i].urgency \in {"low", "medium"}
       /\ executionQueue[i].seq < Last(received).seq

(* C10: among plans of one urgency, getNextExecutionPlan hands them out in  *)
(* arrival order, also after plans of other urgencies re-sorted the queue.  *)
FifoWithinUrgency ==
  [][received' # received =>
       \A i \in 1..Len(executionQueue') :
          executionQueue'[i].urgency = Last(received').urgency =>
             Last(received').seq < executionQueue'[i].seq]_vars

(* two medium plans, then a high one that re-sorted the queue: the high one *)
(* and the older medium were handed out, the younger medium still waits     *)
FifoAfterResortReached ==
  /\ Len(received) >= 2
  /\ received[1].urgency = "high"
  /\ received[2].urgency = "medium"
  /\ \E i \in 1..Len(executionQueue) :
       /\ executionQueue[i].urgency = "medium"
       /\ received[2].seq < executionQueue[i].seq
       /\ executionQueue[i].seq < received[1].seq

(* ===================== properties of the drain, per trade =============== *)
(* C11: the plans of one trade leave the queue in the order in which they   *)
(* were queued, whatever their urgencies: the plan taken by the drain is    *)
(* older than every plan of the same trade it leaves behind.                *)
PerTradeFifo ==
  [][Len(executionQueue') < Len(executionQueue) =>
       \A i \in 1..Len(executionQueue') :
          executionQueue'[i].tradeId = Head(executionQueue).tradeId =>
             Head(executionQueue).seq < executionQueue'[i].seq]_vars

(* ===================== properties of the price monitor ================= *)
QueuedPlans(q) == {q[i] : i \in DOMAIN q}

(* C12: every emission of the monitor queues exactly one exit plan for the  *)
(* trade of the event, with urgency high when the event is a STOP_LOSS or a *)
(* MAX_EXIT_TIME (the deadline) and medium for every other kind.            *)
EmissionQueuesExitByKind ==
  [][emitted' # emitted =>
       LET new == QueuedPlans(executionQueue') \ QueuedPlans(executionQueue)
       IN /\ Cardinality(new) = 1
          /\ \A plan \in new :
               /\ plan.action = "exit"
               /\ plan.tradeId = tradeExit'.tradeId
               /\ plan.urgency =
                    IF tradeExit'.exitCondition \in {"STOP_LOSS", "MAX_EXIT_TIME"}
                    THEN "high" ELSE "medium"]_vars

(* the exit conditions of a monitored trade, each on its own *)
Holds(kind, config, high, price, expired) ==
  LET peak == IF high # NoPrice /\ high > price THEN high ELSE price
  IN CASE kind = "MAX_EXIT_TIME" -> expired
       [] kind = "STOP_LOSS" -> price <= config.stopLoss
       [] kind = "TRAILING_STOP" ->
            /\ config.trailingStopEnabled
            /\ price >= config.tp2
            /\ 100 * price <= peak * (100 - config.trailingStopRetracement)
       [] kind = "TP2" -> price >= config.tp2
       [] kind = "TP1" -> price >= config.tp1

Precedence == <<"MAX_EXIT_TIME", "STOP_LOSS", "TRAILING_STOP", "TP2", "TP1">>

FirstHolding(config, high, price, expired) ==
  LET holding == {k \in DOMAIN Precedence :
                    Holds(Precedence[k], config, high, price, expired)}
  IN IF holding = {} THEN "none"
     ELSE Precedence[CHOOSE k \in holding : \A l \in holding : k <= l]

NoEmissionAfterTerminalExit ==
  \A i \in DOMAIN emitted, j \in DOMAIN emitted :
     (i < j /\ emitted[i].tradeId = emitted[j].tradeId) =>
        emitted[i].exitCondition \notin
           {"MAX_EXIT_TIME", "STOP_LOSS", "TRAILING_STOP"}

(* C15: the high recorded for a buy trade does not decrease after TP2:     *)
(* once the monitor has observed TP2 for a trade with the trailing stop     *)
(* enabled, whenever the trade is monitored its recorded trailingHigh is at *)
(* least the price of that observation.                                     *)
TrailingHighNeverDecreases ==
  \A t \in DOMAIN trailingHighs :
     (/\ tradeExit # NoEvent
      /\ tradeExit.tradeId = t
      /\ tradeExit.exitCondition = "TP2"
      /\ tradeExit.config.trailingStopEnabled) =>
        trailingHighs[t] >= tradeExit.exitPrice

(* C17: every trade attached to the monitor has been entered and is not    *)
(* terminal: its status is entered or partially_exited, never pending,      *)
(* failed or fully_exited.                                                  *)
MonitoredTradesAreEntered ==
  \A t \in DOMAIN tradeMonitoringConfigs :
     /\ TradeOf(t) # NoTrade
     /\ TradeOf(t).status \in {"entered", "partially_exited"}

AllowanceBeforeBroadcast ==
  [][\A c \in SwapCalls :
        (/\ swapCalls[c].pc = "broadcast"
         /\ swapCalls'[c].pc = "sent"
         /\ ~isNativeTokenAddress(getTokenAddress(swapCalls[c].sellToken))) =>
           /\ allowances["allowanceHolder"] >= swapCalls[c].sellAmountWei
           /\ allowances["permit2"] >= swapCalls[c].sellAmountWei]_vars

(* ====================== properties of the position sizer =============== *)
(* C19: a sizing that succeeds with a percentage from 1 to 80 yields        *)
(* floor((balance - gasReserveRaw) * pct / 100), which is at most           *)
(* balance - gasReserveRaw, where gasReserveRaw is minimumGasReserve when   *)
(* the base token is the native token of the network and 0 otherwise.       *)
PositionSizerBounds ==
  (/\ sizing # NoSizing
   /\ sizing.result.success
   /\ sizing.result.meetsMinimum
   /\ sizing.result.positionSizePercentage \in 1..80) =>
     LET gasReserveRaw ==
           IF isNativeTokenAddress(getTokenAddress(sizing.baseTokenSymbol))
           THEN minimumGasReserve ELSE 0
         available == sizing.balance - gasReserveRaw
     IN /\ sizing.result.positionSizeWei =
             (available * sizing.result.positionSizePercentage) \div 100
        /\ sizing.result.positionSizeWei <= available

(* ====================== properties of the error replies ================ *)
(* C20: every failed reply of processApiSignal carries an error code, and   *)
(* the code is one of the closed list of error codes.                       *)
SurfacedErrorsCarryListedCode ==
  \A i \in DOMAIN apiReplies :
     apiReplies[i].status = "failed" =>
        /\ "code" \in DOMAIN apiReplies[i]
        /\ apiReplies[i].code \in
             {"INVALID_SIGNAL_FORMAT", "INVALID_PRICE_LEVELS", "SIGNAL_EXPIRED",
              "TOKEN_NOT_FOUND", "UNSUPPORTED_NETWORK", "SAFE_NOT_DEPLOYED",
              "SAFE_INVALID_CONFIGURATION", "SAFE_INSUFFICIENT_BALANCE",
              "INSUFFICIENT_STABLECOIN_BALANCE", "INVALID_POSITION_PERCENTAGE",
              "POSITION_SIZE_TOO_SMALL", "POSITION_SIZE_TOO_LARGE",
              "SWAP_QUOTE_FAILED", "SWAP_EXECUTION_FAILED",
              "INSUFFICIENT_LIQUIDITY", "SLIPPAGE_TOO_HIGH",
              "RPC_CONNECTION_FAILED", "NETWORK_CONGESTION",
              "TRANSACTION_TIMEOUT", "PRICE_DATA_UNAVAILABLE",
              "API_RATE_LIMITED", "CONFIGURATION_ERROR", "SYSTEM_SHUTDOWN",
              "UNKNOWN_ERROR"}

(* ================= properties of exits of terminal trades =============== *)
(* C21: an exit request for a Trade that is already terminal executes no    *)
(* swap and appends no exit event: the step that finishes an exit plan of a *)
(* terminal trade leaves the trade record as it was.                        *)
TerminalExitIsNoOp ==
  [][\A plan \in running \ running' :
       (/\ plan.action = "exit"
        /\ TradeOf(plan.tradeId).status \in TerminalStatuses) =>
          getTrade(activeTrades', tradeHistory', plan.tradeId) =
             TradeOf(plan.tradeId)]_vars

(* C22: whenever a Trade is in a terminal state, the execution queue holds  *)
(* no plan for that trade and the monitor is not attached to it.            *)
TerminalTradesAreQuiescent ==
  \A t \in TradeIdsInStore :
     TradeOf(t).status \in TerminalStatuses =>
        /\ \A i \in DOMAIN executionQueue : executionQueue[i].tradeId # t
        /\ t \notin DOMAIN tradeMonitoringConfigs

(* C23: when an exit request fails (its plan finishes and the trade record  *)
(* is as before), the same request is put back on the queue at the same     *)
(* urgency; no request of the model has been retried before, so the limit   *)
(* of 5 retries does not excuse the step.                                   *)
FailedExitRequeued ==
  [][\A plan \in running \ running' :
       (/\ plan.action = "exit"
        /\ getTrade(activeTrades', tradeHistory', plan.tradeId) =
              TradeOf(plan.tradeId)) =>
          /\ Len(executionQueue') = Len(executionQueue) + 1
          /\ \E i \in DOMAIN executionQueue' :
                /\ executionQueue'[i].action = "exit"
                /\ executionQueue'[i].tradeId = plan.tradeId
                /\ executionQueue'[i].reason = plan.reason
                /\ executionQueue'[i].urgency = plan.urgency]_vars

AcceptedSignalsAreOrdered ==
  validated # NoSignal =>
    LET ordered ==
          \/ /\ validated.side = "buy"
             /\ validated.SL < validated.currentPrice
             /\ validated.currentPrice < validated.TP1
             /\ validated.TP1 <= validated.TP2
          \/ /\ validated.side = "sell"
             /\ validated.TP2 <= validated.TP1
             /\ validated.TP1 < validated.currentPrice
             /\ validated.currentPrice < validated.SL
    IN ~ordered => swaps = <<>> /\ Last(apiReplies).status = "failed"

(* C26: a signal whose deadline is not strictly after the instant of its    *)
(* submission is answered as failed and leads to no swap.                   *)
DeadlineStrictlyInFuture ==
  (validated # NoSignal /\ validated.maxExitTime # "future") =>
     swaps = <<>> /\ Last(apiReplies).status = "failed"

(* ==================== properties of the trade's terms ================== *)
(* C27: after a Trade is created, its tp1, tp2 and stopLoss and its         *)
(* identity fields (signalId, userId, networkKey) never change.             *)
TradeTermsImmutable ==
  [][\A t \in TradeIdsInStore :
       LET before == TradeOf(t)
           after == getTrade(activeTrades', tradeHistory', t)
       IN /\ after # NoTrade
          /\ after.tp1 = before.tp1
          /\ after.tp2 = before.tp2
          /\ after.stopLoss = before.stopLoss
          /\ after.signalId = before.signalId
          /\ after.userId = before.userId
          /\ after.networkKey = before.networkKey]_vars

(* ======================= properties of the enter path ================== *)
(* C28: when an enter plan finishes and a step of the enter path failed     *)
(* (no price, balance too low, no receipt or a receipt that is not a        *)
(* success), the trade is failed and is not attached to the monitor.        *)
EnterFailureLeavesFailed ==
  [][\A plan \in running \ running' :
       LET failed == \/ plan.tradeId \notin DOMAIN entryReceipts'
                     \/ entryReceipts'[plan.tradeId] # "success"
       IN (plan.action = "enter" /\ failed) =>
            /\ getTrade(activeTrades', tradeHistory', plan.tradeId).status =
                 "failed"
            /\ plan.tradeId \notin DOMAIN tradeMonitoringConfigs']_vars

(* C29: a trade is entered, and attached to the monitor, only after the     *)
(* receipt of its swap transaction indicated a successful status.           *)
EnteredOnlyAfterSuccessfulReceipt ==
  \A t \in TradeIdsInStore :
     (TradeOf(t).status = "entered" \/ t \in DOMAIN tradeMonitoringConfigs) =>
        /\ t \in DOMAIN entryReceipts
        /\ entryReceipts[t] = "success"

(* ===================== properties of the open positions ================ *)
(* C30: every trade whose position is open (entered or partially_exited)    *)
(* is attached to the monitor or has an exit plan queued or in execution,   *)
(* also after an exit attempt for it has failed.                            *)
OpenPositionsAreCovered ==
  \A t \in TradeIdsInStore :
     TradeOf(t).status \in {"entered", "partially_exited"} =>
        \/ t \in DOMAIN tradeMonitoringConfigs
        \/ \E i \in DOMAIN executionQueue :
              executionQueue[i].action = "exit" /\ executionQueue[i].tradeId = t
        \/ \E plan \in running : plan.action = "exit" /\ plan.tradeId = t

(* ==================== properties of the monitor ticks ================== *)
(* C31: the monitor emits TRAILING_STOP for a trade only when TP2 was       *)
(* reached for that trade at an earlier tick (an earlier TP2 emission) and  *)
(* the price is at or below trailingHigh * (1 - retracement / 100).         *)
TrailingStopOnlyAfterTp2 ==
  [][(Len(emitted') > Len(emitted) /\ tradeExit'.exitCondition = "TRAILING_STOP") =>
       LET t == tradeExit'.tradeId
           config == tradeExit'.config
           high == IF t \in DOMAIN trailingHighs
                   THEN trailingHighs[t] ELSE config.entryPrice
       IN /\ \E i \in DOMAIN emitted :
                emitted[i].tradeId = t /\ emitted[i].exitCondition = "TP2"
          /\ 100 * tradeExit'.exitPrice <=
               high * (100 - config.trailingStopRetracement)]_vars

OneExitPerEmission ==
  \A t \in TradeIdsInStore :
     Len(TradeOf(t).exitEvents) <=
       Cardinality({i \in DOMAIN emitted : emitted[i].tradeId = t})

(* ==================== properties of the exit path ===================== *)
(* C34: when the exit that the monitor's deadline emission (MAX_EXIT_TIME)  *)
(* queued for an entered trade is executed with success, as a full exit,    *)
(* the trade ends in state expired.                                         *)
DeadlineExitEndsExpired ==
  [][\A plan \in running \ running' :
       LET before == getTrade(activeTrades, tradeHistory, plan.tradeId)
           after == getTrade(activeTrades', tradeHistory', plan.tradeId)
       IN (/\ plan.action = "exit"
           /\ plan.reason = "MAX_EXIT_TIME"
           /\ before.status = "entered"
           /\ Len(after.exitEvents) > Len(before.exitEvents)) =>
            after.status = "expired"]_vars

(* ==================== liveness of the execution queue ================= *)
(* C35: every plan placed in the execution queue is eventually taken out of *)
(* it and handed to its handler, when the drain timer keeps firing and only *)
(* finitely many plans of higher urgency are queued after it.               *)
QueuedPlansAreDrained ==
  \A k \in 1..MaxQueueOps :
     (\E i \in DOMAIN executionQueue : executionQueue[i].seq = k) ~>
        (/\ \A i \in DOMAIN executionQueue : executionQueue[i].seq # k
         /\ \E j \in DOMAIN received : received[j].seq = k)

(* a plan was handed over after a plan queued later had overtaken it, and   *)
(* the queue is empty again                                                 *)
OvertakenPlanDrained ==
  /\ executionQueue = <<>>
  /\ \E i, j \in DOMAIN received :
        /\ i < j
        /\ received[i].seq > received[j].seq
        /\ received[i].urgency = "high"
        /\ received[j].urgency = "low"

(* ================= properties of the Safe validation =================== *)
(* C36: a wallet whose owners list is empty or whose threshold is below 1   *)
(* is never reported valid: when the validation reads such a configuration  *)
(* from the deployed, listed wallet, it reports no compatible Safe and the  *)
(* error SAFE_INVALID_CONFIGURATION.                                        *)
InvalidConfigurationRejected ==
  validation # NoValidation =>
    LET n == validation.result.networkKey
    IN (/\ n # NoNetwork
        /\ validation.code[n]
        /\ checkUserDeploymentOnChain(validation.safeAddress, n,
                                      validation.userSafeDeployments)) =>
         LET v == validateSafeOnChain(validation.safeAddress, n,
                                      validation.code, validation.safe)
         IN (v.owners = <<>> \/ v.threshold < 1) =>
              /\ ~validation.result.hasCompatibleSafe
              /\ validation.error = "SAFE_INVALID_CONFIGURATION"

(* ================ properties of the token chain resolver =============== *)
(* C37: a lookup that starts less than CACHE_TTL after a lookup of the same *)
(* symbol completed is answered without asking the external sources, and a *)
(* lookup is answered from the cache only when a lookup of the symbol       *)
(* completed at most CACHE_TTL before it.                                   *)
RecentLookupAnsweredFromCache ==
  \A j \in DOMAIN detections :
     LET recent == {i \in 1..detections[j].after :
                      /\ detections[i].cacheKey = detections[j].cacheKey
                      /\ detections[j].started - detections[i].finished
                           < CACHE_TTL}
         known == {i \in 1..detections[j].after :
                     /\ detections[i].cacheKey = detections[j].cacheKey
                     /\ detections[j].started - detections[i].finished
                          <= CACHE_TTL}
     IN /\ recent # {} => detections[j].source # "external"
        /\ detections[j].source = "cache" => known # {}

(* C38: for one symbol at most one lookup of the external sources is in     *)
(* flight; a request that arrives meanwhile shares it.                      *)
SingleLookupInFlight ==
  \A i, j \in DOMAIN inflight :
     i # j => inflight[i].cacheKey # inflight[j].cacheKey

(* ================== properties of the pending signals ================== *)
(* C39: a pending signal is executed at most once: a call of                *)
(* executeSignalForSubscribers creates and queues a trade for a signal only *)
(* if rejectSignal was not called for it and no earlier call of             *)
(* executeSignalForSubscribers was made for it, overlapping calls included. *)
SignalExecutedOnce ==
  [][\A c \in DOMAIN signalCalls :
       signalCalls'[c].created # signalCalls[c].created =>
          /\ signalCalls[c].signalId \notin rejected
          /\ \A d \in 1..(c - 1) :
                signalCalls[d].signalId # signalCalls[c].signalId]_vars

(* ==================== properties of the two stores ==================== *)
(* C40: every trade is held in exactly one of activeTrades and              *)
(* tradeHistory, and it is in tradeHistory exactly when its status is       *)
(* terminal.                                                                *)
HistoryHoldsTheTerminalTrades ==
  /\ DOMAIN activeTrades \cap DOMAIN tradeHistory = {}
  /\ \A t \in DOMAIN tradeHistory :
        tradeHistory[t].status \in TerminalStatuses
  /\ \A t \in DOMAIN activeTrades :
        activeTrades[t].status \notin TerminalStatuses

====
